---- MODULE Spec2Model ----
(***************************************************************************)
(* Model of the ScryptedRemotePlugin of src/src/main.ts: the session       *)
(* manager (tryLogin), the device filter (filtered, discoverDevices), the  *)
(* proxy wiring (setupProxies) and the registry (devices).                 *)
(*                                                                         *)
(* JavaScript runs every synchronous stretch of a handler to completion,   *)
(* so one action is one stretch of code between two awaits.  A call of     *)
(* clearTryDiscoverDevices (a "pass") has these stretches:                 *)
(*   StartPass    lines 90, 95-112  up to the await of connectScryptedClient*)
(*   ConnectOk    lines 104, 113    the connection resolved                *)
(*   ConnectFail  line  104         the connection rejected                *)
(*   Discover     lines 91, 125-160 up to the await of onDevicesChanged    *)
(*   NotifyOk     lines 158-162     the host accepted the batch; wiring    *)
(*   NotifyFail   line  158         the host rejected the batch            *)
(* Nothing orders the stretches of different passes, nor a releaseDevice   *)
(* call, other than the order of the stretches inside each pass.           *)
(*                                                                         *)
(* src/unnamed/part_000 is an earlier revision of the same class (filter   *)
(* named allowlisted, three allow-listed interfaces, no setupProxies); the *)
(* model follows src/src/main.ts.                                          *)
(***************************************************************************)
EXTENDS Integers, Sequences, FiniteSets, TLC

\* ---------------------------------------------------------------- bounds
NumDevices == 3
MaxPasses == 2

Ids == 1..NumDevices
Passes == 1..MaxPasses

\* ------------------------------------------------------------- constants
\* `client: ScryptedClientStatic = null`; a live session is named by the
\* pass whose connectScryptedClient call returned it.
NoClient == 0

\* what Map.get returns for a missing key
Undefined == <<0, 0>>

\* what filtered returns for a device it rejects
Null == [null |-> TRUE]

Keys == {"baseUrl", "username", "password"}

\* values a credential field can hold; "" is the empty (falsy) value
CredValues == {"", "a"}

\* the allow-list of filtered
allowedInterfaces ==
    <<"VideoCamera", "Camera", "RTCSignalingChannel", "Battery", "MotionSensor">>

\* ------------------------------------------------- the remote system state
\* What the remote hub can hold under one identifier.  fault says how the
\* handle of the device behaves when discoverDevices touches it:
\*   "none"    every read succeeds
\*   "lookup"  getDeviceById throws (line 132, outside the try)
\*   "access"  the test access of line 135 throws, inside the try: the
\*             handle is unreachable, or getDeviceById returned undefined
\*   "fields"  nativeId reads, but reading name, type, interfaces, info or
\*             id throws (lines 142-146, outside the try)
DeviceKinds ==
    << [interfaces |-> <<"VideoCamera">>, fault |-> "none", batteryLevel |-> "none"],
       [interfaces |-> <<"Thermometer">>, fault |-> "none", batteryLevel |-> "none"],
       [interfaces |-> <<"Camera">>, fault |-> "access", batteryLevel |-> "none"],
       [interfaces |-> <<"MotionSensor", "OnOff", "Battery", "VideoCamera">>,
        fault |-> "none", batteryLevel |-> "b80"],
       [interfaces |-> <<"Battery">>, fault |-> "fields", batteryLevel |-> "b20"],
       [interfaces |-> <<"Camera">>, fault |-> "lookup", batteryLevel |-> "none"] >>

\* an identifier that is not (or no longer) among the keys of getSystemState
Absent == [interfaces |-> <<>>, fault |-> "absent", batteryLevel |-> "none"]

\* the strides of Snapshots
Strides == {0, 1, 2}

\* The snapshots the remote hub is started with: device id is of kind
\* start + id * step in the cycle of DeviceKinds.  Step 0 gives the hubs
\* with devices of one kind, the other steps hubs of neighbouring kinds.
Snapshots ==
    { [id \in Ids |-> DeviceKinds[((start + id * step) % Len(DeviceKinds)) + 1]] :
          start \in 0..(Len(DeviceKinds) - 1), step \in Strides }

VARIABLES
    values,      \* settingsStorage.values: Keys -> CredValues
    client,      \* this.client: NoClient or the session of a pass
    devices,     \* this.devices: nativeId -> remote handle <<session, id>>
    pass,        \* the calls of clearTryDiscoverDevices, by number
    notified,    \* the batches passed to deviceManager.onDevicesChanged
    remote,      \* the remote system state: a snapshot
    listeners,   \* handle -> interface -> number of listen() subscriptions
    wrapDepth,   \* handle -> number of wrappers around getVideoStream
    deviceState, \* deviceManager.getDeviceState(nativeId).batteryLevel
    reply        \* what the step just taken gave, if it was a call of the
                 \* host or an event of the hub

vars == <<values, client, devices, pass, notified, remote, listeners,
          wrapDepth, deviceState, reply>>

Handles == Passes \X Ids

\* the step just taken was a step of a pass or a release
NoReply == [op |-> "none"]

AllowedSet == {allowedInterfaces[i] : i \in 1..Len(allowedInterfaces)}

\* Array.prototype.includes
Includes(s, x) == \E i \in 1..Len(s) : s[i] = x

\* ------------------------------------------------------------- filtered
filteredDeclaredOrder(device) ==
    LET intersection == SelectSeq(device.interfaces,
                                  LAMBDA i : Includes(allowedInterfaces, i))
    IN  IF Len(intersection) = 0 THEN Null
        ELSE [device EXCEPT !.interfaces = intersection]
filteredNoReject(device) ==
    LET intersection == SelectSeq(allowedInterfaces,
                                  LAMBDA i : Includes(device.interfaces, i))
    IN  [device EXCEPT !.interfaces = intersection]
filtered(device) ==
    LET intersection == SelectSeq(allowedInterfaces,
                                  LAMBDA i : Includes(device.interfaces, i))
    IN  IF Len(intersection) = 0 THEN Null
        ELSE [device EXCEPT !.interfaces = intersection]

\* --------------------------------------------------------------- tryLogin
\* the test of line 97
MissingCredentialBaseUrlOnly(v) == v["baseUrl"] = ""
MissingCredential(v) ==
    v["baseUrl"] = "" \/ v["username"] = "" \/ v["password"] = ""

NewPass ==
    [pc |-> "new", err |-> "none", creds |-> [k \in Keys |-> ""],
     connectCalled |-> FALSE, session |-> NoClient, visited |-> <<>>,
     filterCalls |-> <<>>, log |-> <<>>, batch |-> <<>>, keysAfter |-> {},
     wired |-> <<>>]

\* clearTryDiscoverDevices up to the first await: tryLogin clears the
\* session, tests the credentials and calls connectScryptedClient.
StartPass(p, v) ==
    /\ client' = NoClient
    /\ pass' = [pass EXCEPT ![p] =
           IF MissingCredential(v)
           THEN [@ EXCEPT !.pc = "failed", !.err = "config", !.creds = v]
           ELSE [@ EXCEPT !.pc = "connecting", !.creds = v,
                          !.connectCalled = TRUE]]

\* ------------------------------------------------------- discoverDevices
\* the state of one run of the loop of lines 131-156
LoopStartCleared(devs) ==
    [devices |-> << >>, batch |-> <<>>, log |-> <<>>, visited |-> <<>>,
     filterCalls |-> <<>>, aborted |-> FALSE]
LoopStart(devs) ==
    [devices |-> devs, batch |-> <<>>, log |-> <<>>, visited |-> <<>>,
     filterCalls |-> <<>>, aborted |-> FALSE]

Line(msg, id) == [msg |-> msg, id |-> id]

\* Map.prototype.set
MapSet(m, k, v) == [x \in (DOMAIN m) \cup {k} |-> IF x = k THEN v ELSE m[x]]

\* Map.prototype.delete
MapDelete(m, k) == [x \in (DOMAIN m) \ {k} |-> m[x]]

\* Map.prototype.get
MapGet(m, k) == IF k \in DOMAIN m THEN m[k] ELSE Undefined

\* the catch block of lines 136-139: log and continue
AccessFaultAborts(acc, id) ==
    [acc EXCEPT !.log = Append(@, Line("cannot_access", id)),
                !.aborted = TRUE]
AccessFault(acc, id) ==
    [acc EXCEPT !.log = Append(@, Line("cannot_access", id))]

\* lines 141-155: the handle could be read
ImportUnlessRegistered(acc, session, id, ifaces) ==
    LET device == filtered([nativeId |-> id, interfaces |-> ifaces])
        called == [acc EXCEPT !.filterCalls = Append(@, id)]
    IN  IF device = Null
        THEN [called EXCEPT !.log = Append(@, Line("not_supported", id))]
        ELSE IF id \in DOMAIN acc.devices THEN called
        ELSE [called EXCEPT
                 !.log = Append(@, Line("found", id)),
                 !.devices = MapSet(@, device.nativeId, <<session, id>>),
                 !.batch = Append(@, device)]
Import(acc, session, id, ifaces) ==
    LET device == filtered([nativeId |-> id, interfaces |-> ifaces])
        called == [acc EXCEPT !.filterCalls = Append(@, id)]
    IN  IF device = Null
        THEN [called EXCEPT !.log = Append(@, Line("not_supported", id))]
        ELSE [called EXCEPT
                 !.log = Append(@, Line("found", id)),
                 !.devices = MapSet(@, device.nativeId, <<session, id>>),
                 !.batch = Append(@, device)]

\* one iteration of the loop body, lines 132-155: the lookup, the test
\* access in its try, then the reads of the fields and the filter
LoopBody(acc, session, rem, id) ==
    LET seen == [acc EXCEPT !.visited = Append(@, id)]
    IN  IF rem[id].fault = "lookup" THEN [seen EXCEPT !.aborted = TRUE]
        ELSE IF rem[id].fault = "access" THEN AccessFault(seen, id)
        ELSE IF rem[id].fault = "fields" THEN [seen EXCEPT !.aborted = TRUE]
        ELSE Import(seen, session, id, rem[id].interfaces)

\* `for (const id in state)`: the identifiers of the snapshot in key order;
\* an exception thrown by an iteration ends the loop
RECURSIVE Loop(_, _, _, _)
Loop(acc, session, rem, id) ==
    IF id > NumDevices \/ acc.aborted THEN acc
    ELSE IF rem[id].fault = "absent" THEN Loop(acc, session, rem, id + 1)
    ELSE Loop(LoopBody(acc, session, rem, id), session, rem, id + 1)

\* ----------------------------------------------------------- setupProxies
WiringStart ==
    [listeners |-> listeners, wrapDepth |-> wrapDepth,
     deviceState |-> deviceState, wired |-> <<>>, failed |-> FALSE]

\* lines 61-67: one listen() per interface of the descriptor
Subscribe(ls, h, ifaces) ==
    [ls EXCEPT ![h] = [i \in AllowedSet |->
                          IF Includes(ifaces, i) THEN @[i] + 1 ELSE @[i]]]

\* lines 59-87; a call on an undefined remoteDevice throws at line 61
setupProxiesNoSeed(st, device, remoteDevice) ==
    IF remoteDevice = Undefined
    THEN IF Len(device.interfaces) > 0 THEN [st EXCEPT !.failed = TRUE] ELSE st
    ELSE [st EXCEPT
            !.wired = Append(@, remoteDevice),
            !.listeners = Subscribe(@, remoteDevice, device.interfaces),
            !.wrapDepth =
                IF Includes(device.interfaces, "VideoCamera")
                THEN [@ EXCEPT ![remoteDevice] = @ + 1]
                ELSE @]
setupProxies(st, device, remoteDevice) ==
    IF remoteDevice = Undefined
    THEN IF Len(device.interfaces) > 0 THEN [st EXCEPT !.failed = TRUE] ELSE st
    ELSE [st EXCEPT
            !.wired = Append(@, remoteDevice),
            !.listeners = Subscribe(@, remoteDevice, device.interfaces),
            !.deviceState =
                IF Includes(device.interfaces, "Battery")
                THEN [@ EXCEPT ![device.nativeId] =
                                  remote[remoteDevice[2]].batteryLevel]
                ELSE @,
            !.wrapDepth =
                IF Includes(device.interfaces, "VideoCamera")
                THEN [@ EXCEPT ![remoteDevice] = @ + 1]
                ELSE @]

\* line 161: devices.map(device => this.setupProxies(device, this.devices.get(...)))
RECURSIVE WireAll(_, _, _)
WireAll(st, batch, j) ==
    IF j > Len(batch) \/ st.failed THEN st
    ELSE WireAll(setupProxies(st, batch[j], MapGet(devices, batch[j].nativeId)),
                 batch, j + 1)

\* ------------------------------------------------------------------ Init
Init ==
    /\ values \in [Keys -> CredValues]
    /\ client = NoClient
    /\ devices = << >>
    /\ pass = [p \in Passes |-> NewPass]
    /\ notified = <<>>
    /\ remote \in Snapshots
    /\ listeners = [h \in Handles |-> [i \in AllowedSet |-> 0]]
    /\ wrapDepth = [h \in Handles |-> 0]
    /\ deviceState = [id \in Ids |-> "unset"]
    /\ reply = NoReply

\* --------------------------------------------------------------- actions
Started(p) == pass[p].pc # "new"

\* the number of the next call of clearTryDiscoverDevices
NextPass == Cardinality({p \in Passes : Started(p)}) + 1

\* lines 31-34: the constructor starts the first pass and does not await it
Constructor ==
    /\ ~Started(1)
    /\ StartPass(1, values)
    /\ reply' = NoReply
    /\ UNCHANGED <<values, devices, notified, remote, listeners, wrapDepth,
                   deviceState>>

\* lines 120-122 and 14-29: the settings store keeps the value and calls
\* onPut, which starts a pass
PutSetting(key, value) ==
    /\ Started(1)
    /\ NextPass \in Passes
    /\ values' = [values EXCEPT ![key] = value]
    /\ StartPass(NextPass, values')
    /\ reply' = NoReply
    /\ UNCHANGED <<devices, notified, remote, listeners, wrapDepth,
                   deviceState>>

\* line 104: connectScryptedClient resolved; line 113 logs the version
ConnectOk(p) ==
    /\ pass[p].pc = "connecting"
    /\ client' = p
    /\ pass' = [pass EXCEPT ![p].pc = "loggedIn"]
    /\ reply' = NoReply
    /\ UNCHANGED <<values, devices, notified, remote, listeners, wrapDepth,
                   deviceState>>

\* line 104: connectScryptedClient rejected; tryLogin and
\* clearTryDiscoverDevices reject with it
ConnectFail(p) ==
    /\ pass[p].pc = "connecting"
    /\ pass' = [pass EXCEPT ![p].pc = "failed", ![p].err = "connect"]
    /\ reply' = NoReply
    /\ UNCHANGED <<values, client, devices, notified, remote, listeners,
                   wrapDepth, deviceState>>

\* lines 91, 124-160: discoverDevices up to the await of onDevicesChanged
Discover(p) ==
    /\ pass[p].pc = "loggedIn"
    /\ IF client = NoClient
       THEN /\ pass' = [pass EXCEPT ![p].pc = "done"]
            /\ UNCHANGED <<devices, notified>>
       ELSE LET r == Loop(LoopStart(devices), client, remote, 1)
                q == [pass[p] EXCEPT !.session = client,
                                     !.visited = r.visited,
                                     !.filterCalls = r.filterCalls,
                                     !.log = r.log,
                                     !.batch = r.batch,
                                     !.keysAfter = DOMAIN r.devices]
            IN  /\ devices' = r.devices
                /\ IF r.aborted
                   THEN /\ pass' = [pass EXCEPT ![p] =
                               [q EXCEPT !.pc = "failed", !.err = "device"]]
                        /\ UNCHANGED notified
                   ELSE /\ pass' = [pass EXCEPT ![p] =
                               [q EXCEPT !.pc = "notifying"]]
                        /\ notified' = Append(notified,
                               [pass |-> p, devices |-> r.batch])
    /\ reply' = NoReply
    /\ UNCHANGED <<values, client, remote, listeners, wrapDepth, deviceState>>

\* lines 158-162: onDevicesChanged resolved; every descriptor is wired
NotifyOk(p) ==
    /\ pass[p].pc = "notifying"
    /\ LET st == WireAll(WiringStart, pass[p].batch, 1)
       IN  /\ listeners' = st.listeners
           /\ wrapDepth' = st.wrapDepth
           /\ deviceState' = st.deviceState
           /\ pass' = [pass EXCEPT ![p] =
                  IF st.failed
                  THEN [@ EXCEPT !.pc = "failed", !.err = "wiring",
                                 !.wired = st.wired]
                  ELSE [@ EXCEPT !.pc = "done", !.wired = st.wired]]
    /\ reply' = NoReply
    /\ UNCHANGED <<values, client, devices, notified, remote>>

\* line 158: onDevicesChanged rejected; discoverDevices rejects with it
NotifyFailStillWires(p) ==
    /\ pass[p].pc = "notifying"
    /\ LET st == WireAll(WiringStart, pass[p].batch, 1)
       IN  /\ listeners' = st.listeners
           /\ wrapDepth' = st.wrapDepth
           /\ deviceState' = st.deviceState
           /\ pass' = [pass EXCEPT ![p].pc = "failed", ![p].err = "notify",
                                   ![p].wired = st.wired]
    /\ reply' = NoReply
    /\ UNCHANGED <<values, client, devices, notified, remote>>
NotifyFail(p) ==
    /\ pass[p].pc = "notifying"
    /\ pass' = [pass EXCEPT ![p].pc = "failed", ![p].err = "notify"]
    /\ reply' = NoReply
    /\ UNCHANGED <<values, client, devices, notified, remote, listeners,
                   wrapDepth, deviceState>>

\* lines 172-174
releaseDevice(nativeId) ==
    /\ Started(1)
    /\ nativeId \in DOMAIN devices
    /\ devices' = MapDelete(devices, nativeId)
    /\ reply' = NoReply
    /\ UNCHANGED <<values, client, pass, notified, remote, listeners,
                   wrapDepth, deviceState>>

Next ==
    \/ Constructor
    \/ \E key \in Keys, value \in CredValues : PutSetting(key, value)
    \/ \E p \in Passes : ConnectOk(p)
    \/ \E p \in Passes : ConnectFail(p)
    \/ \E p \in Passes : Discover(p)
    \/ \E p \in Passes : NotifyOk(p)
    \/ \E p \in Passes : NotifyFail(p)
    \/ \E nativeId \in Ids : releaseDevice(nativeId)

Spec == Init /\ [][Next]_vars

TypeOK ==
    /\ values \in [Keys -> CredValues]
    /\ client \in {NoClient} \cup Passes
    /\ DOMAIN devices \subseteq Ids
    /\ \A k \in DOMAIN devices : devices[k] \in Handles
    /\ \A p \in Passes : pass[p].pc \in
          {"new", "connecting", "loggedIn", "notifying", "done", "failed"}

\* ------------------------------------- the host's calls, the hub's events
\* the options a caller of getVideoStream passes; NoOptions is undefined
NoOptions == [defined |-> FALSE, fields |-> {}]

Options ==
    { NoOptions,
      [defined |-> TRUE, fields |-> {<<"video", "hd">>}],
      [defined |-> TRUE, fields |-> {<<"route", "internal">>, <<"video", "hd">>}] }

\* lines 79-82 of newGetVideoStream: default the options, set the route
PatchOptionsFresh(options) ==
    [defined |-> TRUE, fields |-> {<<"route", "external">>}]
PatchOptions(options) ==
    LET o == IF ~options.defined THEN [defined |-> TRUE, fields |-> {}]
             ELSE options
    IN  [o EXCEPT !.fields = {f \in @ : f[1] # "route"}
                                 \cup {<<"route", "external">>}]

\* the getVideoStream the remote handle came with (line 77): the media
\* object it returns depends on the options it is given
remoteGetVideoStream(h, options) ==
    [delegated |-> <<options>>,
     result |-> [device |-> h[2], options |-> options]]

\* lines 78-85: depth wrappers around the original entry point, each
\* returning what the next one returns (line 83)
RECURSIVE CallStream(_, _, _)
CallStream(depth, h, options) ==
    IF depth = 0 THEN remoteGetVideoStream(h, options)
    ELSE CallStream(depth - 1, h, PatchOptions(options))

\* the host calls getVideoStream on the handle that getDevice gives it
getVideoStream(nativeId, options) ==
    /\ nativeId \in DOMAIN devices
    /\ remote[nativeId].fault = "none"
    /\ Includes(remote[nativeId].interfaces, "VideoCamera")
    /\ LET h == devices[nativeId]
           r == CallStream(wrapDepth[h], h, options)
       IN  reply' = [op |-> "getVideoStream", handle |-> h,
                     wrapped |-> wrapDepth[h], options |-> options,
                     delegated |-> r.delegated, result |-> r.result]
    /\ UNCHANGED <<values, client, devices, pass, notified, remote, listeners,
                   wrapDepth, deviceState>>

\* lines 165-170
getDeviceNoCheck(devs, nativeId) ==
    [ok |-> TRUE, device |-> MapGet(devs, nativeId)]
getDeviceResult(devs, nativeId) ==
    IF nativeId \notin DOMAIN devs
    THEN [ok |-> FALSE, device |-> Undefined]
    ELSE [ok |-> TRUE, device |-> MapGet(devs, nativeId)]

\* an identifier the hub never had
UnknownId == NumDevices + 1

getDevice(nativeId) ==
    /\ reply' = [op |-> "getDevice", nativeId |-> nativeId,
                 result |-> getDeviceResult(devices, nativeId)]
    /\ UNCHANGED <<values, client, devices, pass, notified, remote, listeners,
                   wrapDepth, deviceState>>

\* the listeners of interface iface on the handles that the sessions
\* 1..s hold for device id: connectScryptedClient gives every session
\* handles of its own, and nothing closes a session that was replaced
RECURSIVE Subscriptions(_, _, _)
Subscriptions(s, id, iface) ==
    IF s = 0 \/ iface \notin AllowedSet THEN 0
    ELSE listeners[<<s, id>>][iface] + Subscriptions(s - 1, id, iface)

\* the battery level a device reports when its battery has drained
Levels == {"b20"}

\* the events of the hub: a change of the batteryLevel property, or an
\* event without a property
Events ==
    {[iface |-> "Battery", property |-> "batteryLevel", data |-> l] : l \in Levels}
        \cup {[iface |-> i, property |-> "", data |-> "event"] :
                 i \in {"MotionSensor", "VideoCamera"}}

\* lines 61-67: device id emits event e; every listener subscribed on
\* e.iface runs once, forwarding the event (line 63) or writing the
\* property into the device state (line 65)
RemoteEvent(id, e) ==
    /\ remote[id].fault = "none"
    /\ Includes(remote[id].interfaces, e.iface)
    /\ LET n == Subscriptions(MaxPasses, id, e.iface)
       IN  /\ reply' = [op |-> "event", nativeId |-> id, event |-> e,
                        forwarded |-> IF e.property = "" THEN n ELSE 0,
                        writes |-> IF e.property = "" THEN 0 ELSE n]
           /\ deviceState' = IF e.property = "batteryLevel" /\ n > 0
                             THEN [deviceState EXCEPT ![id] = e.data]
                             ELSE deviceState
    /\ remote' = IF e.property = "batteryLevel"
                 THEN [remote EXCEPT ![id].batteryLevel = e.data]
                 ELSE remote
    /\ UNCHANGED <<values, client, devices, pass, notified, listeners,
                   wrapDepth>>

\* a device leaves the hub, the first to do so: later snapshots do not
\* list its identifier
RemoteVanish(id) ==
    /\ remote[id].fault # "absent"
    /\ \A i \in Ids : remote[i].fault # "absent"
    /\ remote' = [remote EXCEPT ![id] = Absent]
    /\ reply' = NoReply
    /\ UNCHANGED <<values, client, devices, pass, notified, listeners,
                   wrapDepth, deviceState>>

\* the hubs with at most one device that reports a battery level
LiveSnapshots ==
    {f \in Snapshots :
        Cardinality({id \in Ids : f[id].batteryLevel # "none"}) <= 1}

\* the plugin with its credentials configured, on one of these hubs
InitLive ==
    /\ Init
    /\ values = [k \in Keys |-> "a"]
    /\ remote \in LiveSnapshots

\* the steps of a pass when the only change of the settings is that the
\* password is entered again
NextConfigured ==
    \/ Constructor
    \/ PutSetting("password", "a")
    \/ \E p \in Passes : ConnectOk(p)
    \/ \E p \in Passes : ConnectFail(p)
    \/ \E p \in Passes : Discover(p)
    \/ \E p \in Passes : NotifyOk(p)
    \/ \E p \in Passes : NotifyFail(p)

\* the passes and the calls of the host on the devices
NextHost ==
    \/ NextConfigured
    \/ \E nativeId \in Ids, options \in Options : getVideoStream(nativeId, options)
    \/ \E nativeId \in Ids \cup {UnknownId} : getDevice(nativeId)

SpecHost == InitLive /\ [][NextHost]_vars

\* the passes and the events of the hub
NextHub ==
    \/ NextConfigured
    \/ \E id \in Ids, e \in Events : RemoteEvent(id, e)

SpecHub == InitLive /\ [][NextHub]_vars

\* the passes, the releases of the host and the devices leaving the hub
NextRegistry ==
    \/ NextConfigured
    \/ \E nativeId \in Ids : releaseDevice(nativeId)
    \/ \E id \in Ids : RemoteVanish(id)

\* the hubs with at most two devices that pass the filter and have no fault
RegistrySnapshots ==
    {f \in LiveSnapshots :
        Cardinality({id \in Ids : /\ filtered(f[id]) # Null
                                  /\ f[id].fault = "none"}) <= 2}

InitRegistry == InitLive /\ remote \in RegistrySnapshots

SpecRegistry == InitRegistry /\ [][NextRegistry]_vars

\* ================================================================ claims
\* The allow-list and its order as the specification states them, written
\* out here so that the properties do not depend on allowedInterfaces.
AllowListOrder ==
    <<"VideoCamera", "Camera", "RTCSignalingChannel", "Battery", "MotionSensor">>

AllowList == {"VideoCamera", "Camera", "RTCSignalingChannel", "Battery", "MotionSensor"}

Range(s) == {s[i] : i \in 1..Len(s)}

Declared(id) == Range(remote[id].interfaces)

Position(x) == CHOOSE i \in 1..Len(AllowListOrder) : AllowListOrder[i] = x

BatchIds(batch) == {batch[j].nativeId : j \in 1..Len(batch)}

\* id is in some batch passed to the host
InBatches(id) ==
    \E b \in 1..Len(notified) : id \in BatchIds(notified[b].devices)

\* the descriptor discoverDevices builds for a readable device
Descriptor(id) == [nativeId |-> id, interfaces |-> remote[id].interfaces]

\* a pass that is between its start and its end
InFlight(p) == pass[p].pc \in {"connecting", "loggedIn", "notifying"}

\* the pass ran the loop of discoverDevices
RanLoop(p) == pass[p].session # NoClient

\* the devices a pass must import: readable, with an allow-listed interface
Survivors ==
    {id \in Ids : remote[id].fault = "none" /\ Declared(id) \cap AllowList # {}}

\* C1: every key of the registry belongs to a descriptor that was passed to
\* onDevicesChanged with a non-empty pruned interface list.
C1_RegistryEmitted ==
    \A k \in DOMAIN devices :
        \E b \in 1..Len(notified) :
            \E j \in 1..Len(notified[b].devices) :
                /\ notified[b].devices[j].nativeId = k
                /\ Len(notified[b].devices[j].interfaces) > 0

\* C2: a device without any allow-listed interface is rejected by filtered,
\* and is never a key of the registry nor in a batch passed to the host.
C2_RejectedNeverImported ==
    \A id \in Ids :
        Declared(id) \cap AllowList = {} =>
            /\ filtered(Descriptor(id)) = Null
            /\ id \notin DOMAIN devices
            /\ ~InBatches(id)

\* two passes have met and rejected the same device
C2_Witness ==
    \E id \in Ids, p, q \in Passes :
        /\ p # q
        /\ Declared(id) \cap AllowList = {}
        /\ Line("not_supported", id) \in Range(pass[p].log)
        /\ Line("not_supported", id) \in Range(pass[q].log)
        /\ pass[p].pc = "done" /\ pass[q].pc = "done"

\* res lists exactly the allow-listed interfaces of decl, in allow-list order
IsOrderedIntersection(res, decl) ==
    /\ Range(res) = Range(decl) \cap AllowList
    /\ \A i, j \in 1..Len(res) : i < j => Position(res[i]) < Position(res[j])

\* C3 as stated: the descriptor of a device with an allow-listed interface
\* carries the intersection in allow-list order, and that set is a STRICT
\* subset of the declared interfaces.
C3_StrictSubset ==
    \A id \in Ids :
        Declared(id) \cap AllowList # {} =>
            LET d == filtered(Descriptor(id))
            IN  /\ d # Null
                /\ IsOrderedIntersection(d.interfaces, remote[id].interfaces)
                /\ Range(d.interfaces) \subseteq Declared(id)
                /\ Range(d.interfaces) # Declared(id)

\* C3 as amended: the descriptor of a device with an allow-listed interface
\* carries the intersection in allow-list order, a subset of the declared
\* interfaces; so do the descriptors the passes hold.
C3_OrderedIntersection ==
    /\ \A id \in Ids :
        Declared(id) \cap AllowList # {} =>
            LET d == filtered(Descriptor(id))
            IN  /\ d # Null
                /\ d.nativeId = id
                /\ IsOrderedIntersection(d.interfaces, remote[id].interfaces)
                /\ Range(d.interfaces) \subseteq Declared(id)
    /\ \A p \in Passes : \A j \in 1..Len(pass[p].batch) :
        LET d == pass[p].batch[j]
        IN  /\ IsOrderedIntersection(d.interfaces, remote[d.nativeId].interfaces)
            /\ Range(d.interfaces) \subseteq Declared(d.nativeId)

\* a pass has notified a descriptor whose interfaces are not in the order
\* in which the device declared them
C3_Witness ==
    \E b \in 1..Len(notified) : \E j \in 1..Len(notified[b].devices) :
        LET d == notified[b].devices[j]
        IN  /\ Len(d.interfaces) > 1
            /\ d.interfaces # SelectSeq(remote[d.nativeId].interfaces,
                                        LAMBDA i : i \in AllowList)

\* C4: no two passes are between their start and their end at once.
C4_NoOverlap == Cardinality({p \in Passes : InFlight(p)}) <= 1

\* a login of pass p fails in this step
LoginFails(p) ==
    /\ pass[p].pc \in {"new", "connecting"}
    /\ pass'[p].pc = "failed"

\* C5: a login failure leaves the session reference null (Unconfigured),
\* discoverDevices runs its loop only after a login that succeeded, and a
\* change of a credential field starts a login.
C5_StateMachine ==
    [][ /\ \A p \in Passes : LoginFails(p) => client' = NoClient
        /\ \A p \in Passes :
              pass'[p].visited # pass[p].visited =>
                  pass[p].pc = "loggedIn" /\ client # NoClient
        /\ values' # values =>
              \E p \in Passes :
                  /\ pass[p].pc = "new"
                  /\ pass'[p].pc \in {"connecting", "failed"}
                  /\ client' = NoClient ]_vars

\* C6: a tryLogin that reads an empty credential field fails with the
\* configuration error, calls connectScryptedClient neither then nor later,
\* and leaves the session reference null.
C6_EmptyCredentialFailsEarly ==
    [][ \A p \in Passes :
          /\ (pass[p].pc = "new" /\ pass'[p].pc # "new"
              /\ \E k \in Keys : values'[k] = "") =>
                 /\ pass'[p].pc = "failed"
                 /\ pass'[p].err = "config"
                 /\ ~pass'[p].connectCalled
                 /\ client' = NoClient
          /\ pass[p].err = "config" => pass'[p] = pass[p] ]_vars

\* a pass failed on an empty username or password although baseUrl is set
C6_Witness ==
    \E p \in Passes :
        /\ pass[p].err = "config"
        /\ pass[p].creds["baseUrl"] # ""
        /\ ~pass[p].connectCalled
        /\ client = NoClient

\* C7: when the login of a pass fails, the session reference is null, the
\* pass is over (discoverDevices not run), and the registry, the host and
\* the wiring are untouched.
C7_LoginFailureAbortsPass ==
    [][ \A p \in Passes :
          /\ LoginFails(p) =>
                /\ client' = NoClient
                /\ devices' = devices
                /\ notified' = notified
                /\ listeners' = listeners
                /\ wrapDepth' = wrapDepth
                /\ deviceState' = deviceState
          /\ pass[p].err \in {"config", "connect"} => pass'[p] = pass[p] ]_vars

\* C8: a device whose nativeId read faults is logged as inaccessible and
\* not as unsupported, is not filtered, not registered and in no batch, and
\* the loop goes on to the next device of the snapshot.
C8_AccessFaultSkipped ==
    /\ \A p \in Passes : \A i \in 1..Len(pass[p].visited) :
        LET id == pass[p].visited[i]
        IN  remote[id].fault = "access" =>
              /\ Line("cannot_access", id) \in Range(pass[p].log)
              /\ Line("not_supported", id) \notin Range(pass[p].log)
              /\ Line("found", id) \notin Range(pass[p].log)
              /\ id \notin Range(pass[p].filterCalls)
              /\ id \notin BatchIds(pass[p].batch)
              /\ id < NumDevices =>
                    /\ i < Len(pass[p].visited)
                    /\ pass[p].visited[i + 1] = id + 1
    /\ \A id \in Ids :
        remote[id].fault = "access" => id \notin DOMAIN devices /\ ~InBatches(id)

\* a finished pass skipped an inaccessible device and imported a later one
C8_Witness ==
    \E p \in Passes : \E i \in 1..Len(pass[p].visited) :
        /\ pass[p].pc = "done"
        /\ remote[pass[p].visited[i]].fault = "access"
        /\ \E id \in BatchIds(pass[p].batch) :
              id > pass[p].visited[i] /\ id \in DOMAIN devices

\* C9: a pass that runs the loop always reaches the host notification,
\* with every readable allow-listed device in its batch.
C9_NoDeviceFaultAborts ==
    \A p \in Passes :
        RanLoop(p) =>
            /\ pass[p].err # "device"
            /\ \E b \in 1..Len(notified) :
                  /\ notified[b].pass = p
                  /\ Survivors \subseteq BatchIds(notified[b].devices)

\* C10: the step of a pass that runs the loop on a live session passes one
\* batch to the host, the survivors and nothing else, and from an empty
\* registry leaves the registry with the identifiers of the batch; no
\* other step notifies the host.
C10_OneBatchOfSurvivors ==
    [][ /\ \A p \in Passes :
              (pass[p].pc = "loggedIn" /\ pass'[p].pc # "loggedIn"
               /\ client # NoClient) =>
                  /\ Len(notified') = Len(notified) + 1
                  /\ notified'[Len(notified')].pass = p
                  /\ BatchIds(notified'[Len(notified')].devices) = Survivors
                  /\ Len(notified'[Len(notified')].devices) =
                        Cardinality(Survivors)
                  /\ DOMAIN devices = {} =>
                        DOMAIN devices' = BatchIds(notified'[Len(notified')].devices)
        /\ notified' # notified =>
              \E p \in Passes : pass[p].pc = "loggedIn" /\ client # NoClient
      ]_vars

\* C11: two passes that ran the loop on the same remote state hold equal
\* batches (same identifiers, same pruned interface lists) and left the
\* registry with the same set of keys.
C11_DiscoveryIdempotent ==
    \A p, q \in Passes :
        RanLoop(p) /\ RanLoop(q) =>
            /\ pass[p].batch = pass[q].batch
            /\ pass[p].keysAfter = pass[q].keysAfter

\* two passes on different sessions imported the same device, and the
\* registry holds one entry for it, the handle of the later session
C11_Witness ==
    \E p, q \in Passes : \E id \in Ids :
        /\ RanLoop(p) /\ RanLoop(q)
        /\ pass[p].session # pass[q].session
        /\ id \in BatchIds(pass[p].batch)
        /\ id \in DOMAIN devices
        /\ devices[id] = <<pass[q].session, id>>
        /\ pass[p].pc = "done" /\ pass[q].pc = "done"

\* the handles of a sequence of descriptors, as session registers them
HandlesOf(session, batch) ==
    [j \in 1..Len(batch) |-> <<session, batch[j].nativeId>>]

\* C16 as stated: when onDevicesChanged has been called with a batch,
\* setupProxies has already run for every descriptor of the batch.
C16_WiringBeforeNotify ==
    \A b \in 1..Len(notified) :
        Len(pass[notified[b].pass].wired) = Len(notified[b].devices)

\* C16 as amended: a pass wires descriptors only after it has filtered
\* them and after onDevicesChanged, called with its whole batch, has
\* resolved; while the notification is pending or when it was rejected
\* nothing of the pass is wired.
C16_NotifyBeforeWiring ==
    \A p \in Passes :
        /\ pass[p].pc = "notifying" => pass[p].wired = <<>>
        /\ pass[p].err = "notify" => pass[p].wired = <<>>
        /\ pass[p].wired # <<>> =>
              /\ pass[p].pc = "done" \/ pass[p].err = "wiring"
              /\ \E b \in 1..Len(notified) :
                    /\ notified[b].pass = p
                    /\ notified[b].devices = pass[p].batch
              /\ Len(pass[p].wired) <= Len(pass[p].batch)
              /\ \A j \in 1..Len(pass[p].wired) :
                    /\ pass[p].wired[j][2] = pass[p].batch[j].nativeId
                    /\ pass[p].batch[j].nativeId \in Range(pass[p].filterCalls)

\* a pass has wired its whole batch of at least two descriptors
C16_Witness ==
    \E p \in Passes :
        /\ pass[p].pc = "done"
        /\ Len(pass[p].batch) >= 2
        /\ Len(pass[p].wired) = Len(pass[p].batch)

\* C17: the getVideoStream of a remote handle is wrapped at most once.
C17_WrappedAtMostOnce == \A h \in Handles : wrapDepth[h] <= 1

\* C19: no pass fails in its wiring, and a pass that is done has wired each
\* descriptor of its batch with the handle it registered itself.
C19_WiringNeverMisses ==
    \A p \in Passes :
        /\ pass[p].err # "wiring"
        /\ (pass[p].pc = "done" /\ RanLoop(p)) =>
              pass[p].wired = HandlesOf(pass[p].session, pass[p].batch)

\* the call of clearTryDiscoverDevices that was started last
LatestPass == NextPass - 1

\* C20: once no pass is in flight, the session reference is null or the
\* session that the login started last has established.
C20_NewestSession ==
    (\A p \in Passes : ~InFlight(p)) => client \in {NoClient, LatestPass}

\* C12: an event of a wired device without a property is forwarded to the
\* host as one device event and written nowhere; an event with a property
\* is written to the state slot of the property and not forwarded.
C12_EventMultiplicity ==
    (reply.op = "event" /\ reply.forwarded + reply.writes > 0) =>
        IF reply.event.property = ""
        THEN reply.forwarded = 1 /\ reply.writes = 0
        ELSE /\ reply.forwarded = 0
             /\ deviceState[reply.nativeId] = reply.event.data

\* the fields of options other than the route
OtherFields(options) == {f \in options.fields : f[1] # "route"}

\* C13: a call of getVideoStream on a wired handle reaches the original
\* entry point once, with route = "external" and the caller's other fields,
\* and returns what the original returned.
C13_StreamRouteExternal ==
    (reply.op = "getVideoStream" /\ reply.wrapped >= 1) =>
        /\ Len(reply.delegated) = 1
        /\ reply.delegated[1].defined
        /\ {f \in reply.delegated[1].fields : f[1] = "route"}
              = {<<"route", "external">>}
        /\ OtherFields(reply.delegated[1]) = OtherFields(reply.options)
        /\ reply.result =
              [device |-> reply.handle[2], options |-> reply.delegated[1]]

\* a handle wired twice was called with options that name another route
C13_Witness ==
    /\ reply.op = "getVideoStream"
    /\ reply.wrapped >= 2
    /\ <<"route", "internal">> \in reply.options.fields

\* C14: the step that subscribes to the Battery interface of a handle
\* leaves the battery level of the local device state equal to the level
\* the remote device has then.
C14_BatterySeeded ==
    [][ \A id \in Ids :
          (\E s \in Passes :
              listeners'[<<s, id>>]["Battery"] > listeners[<<s, id>>]["Battery"])
          => deviceState'[id] = remote'[id].batteryLevel ]_vars

\* a battery device was wired once, after its battery had drained
C14_Witness ==
    \E id \in Ids :
        /\ remote[id].batteryLevel = "b20"
        /\ deviceState[id] = "b20"
        /\ Subscriptions(MaxPasses, id, "Battery") = 1
        /\ reply = NoReply

\* C15: getDevice fails for an identifier that is not a key of the
\* registry and returns the registered handle for one that is; either way
\* it changes nothing.
C15_GetDevice ==
    [][ reply'.op = "getDevice" =>
          /\ UNCHANGED <<values, client, devices, pass, notified, remote,
                         listeners, wrapDepth, deviceState>>
          /\ IF reply'.nativeId \in DOMAIN devices
             THEN /\ reply'.result.ok
                  /\ reply'.result.device = devices[reply'.nativeId]
             ELSE ~reply'.result.ok ]_vars

\* the host asked for a device of the hub that the registry does not hold,
\* while it holds another
C15_Witness ==
    /\ reply.op = "getDevice"
    /\ reply.nativeId \in Ids
    /\ ~reply.result.ok
    /\ DOMAIN devices # {}

\* C18: a step that removes a key of the registry removes that key alone,
\* keeps the handles of the other keys and changes neither the session nor
\* a pass: it is a releaseDevice, never a step of a pass.
C18_RemovedOnlyByRelease ==
    [][ \A k \in DOMAIN devices :
          k \notin DOMAIN devices' =>
              /\ DOMAIN devices' = (DOMAIN devices) \ {k}
              /\ \A j \in DOMAIN devices' : devices'[j] = devices[j]
              /\ client' = client
              /\ pass' = pass ]_vars

\* a device left the hub, a later pass did not find it, and the registry
\* still holds its key
C18_Witness ==
    \E id \in Ids, p \in Passes :
        /\ remote[id].fault = "absent"
        /\ id \in DOMAIN devices
        /\ pass[p].pc = "done"
        /\ RanLoop(p)
        /\ devices[id][1] # pass[p].session
        /\ id \notin BatchIds(pass[p].batch)

====
